---- MODULE Spec2Model ----
(***************************************************************************)
(* A model of the request handlers of be/app/routes.py (csv2sql_tools).    *)
(*                                                                         *)
(* Every handler is a function of the request alone: the module keeps no   *)
(* state between requests.  A behaviour therefore is one request drawn by  *)
(* Init and one handler step that turns it into the response.              *)
(***************************************************************************)
EXTENDS Integers, Sequences, FiniteSets, TLC

VARIABLES
    request,    \* flask.request: the route, the uploaded file or the JSON body
    response,   \* (status, body) returned by the handler; status 0: not yet handled
    reads       \* the pd.read_csv calls the handler made, in order

vars == <<request, response, reads>>

\* ------------------------------------------------------------------ bounds

MaxLines == 7          \* lines of an SQL script
MaxChunk == 3          \* largest explicit maxChunkSize
MaxSqlRows == 3        \* rows of a table sent to /api/csv-to-sql
MaxBatch == 3          \* largest explicit batchSize
MaxNullRows == 2       \* rows of a table sent to /api/handle-nulls
MaxCsvRows == 2        \* data rows of an uploaded CSV file
MaxTypeRows == 20      \* data rows of a one-column CSV file sent for type inference

\* ------------------------------------------------------- program constants

DefaultMaxChunkSize == 1000
PreviewRows == 5
ThresholdNum == 1      \* the 0.1 of the excess-null test, as 1/10
ThresholdDen == 10

\* ------------------------------------------------------------- plumbing

Pending == [status |-> 0]

Reply(status, body) == [status |-> status, body |-> body]

ErrorBody(msg) == [error |-> msg]

Range(s) == {s[i] : i \in 1..Len(s)}

SeqsUpTo(S, n) == UNION {[1..k -> S] : k \in 0..n}

Min(a, b) == IF a < b THEN a ELSE b

\* =================================================================
\* Tables: the cells and frames of pandas
\* =================================================================

\* A cell of a JSON row: null, a number n/d or a string.
Null == [t |-> "null", n |-> 0, d |-> 1, s |-> ""]

NumCell(n, d) == [t |-> "num", n |-> n, d |-> d, s |-> ""]

IntCell(n) == NumCell(n, 1)

StrCell(s) == [t |-> "str", n |-> 0, d |-> 1, s |-> s]

IsInt(cell) == cell.t = "num" /\ cell.d = 1

\* pd.isna(val)
IsNa(cell) == cell.t = "null"

\* A DataFrame: its column names and its rows, one cell per column in each row.
FramesOf(names, cells, maxRows) ==
    UNION {[columns : {cols}, rows : SeqsUpTo([1..Len(cols) -> cells], maxRows)]
             : cols \in names}

Column(df, c) == [i \in 1..Len(df.rows) |-> df.rows[i][c]]

\* The dtype pandas gives a column built from JSON values: int64 when every
\* value is an integer, float64 when integers and nulls mix, else object.
Dtype(df, c) ==
    LET col == Column(df, c)
    IN  IF col # <<>> /\ \A i \in 1..Len(col) : IsInt(col[i]) THEN "int64"
        ELSE IF /\ \A i \in 1..Len(col) : col[i].t \in {"num", "null"}
                /\ \E i \in 1..Len(col) : col[i].t = "num"
             THEN "float64"
        ELSE "object"

\* df.to_json(orient='records'): one mapping from column name to cell per row.
ColIndex(df, name) == CHOOSE c \in 1..Len(df.columns) : df.columns[c] = name

ToRecords(df) ==
    [i \in 1..Len(df.rows) |->
        [name \in Range(df.columns) |-> df.rows[i][ColIndex(df, name)]]]

\* The non-null values of a column, in row order.
NonNull(df, c) == SelectSeq(Column(df, c), LAMBDA cell : ~IsNa(cell))

RECURSIVE Gcd(_, _)
Gcd(a, b) == IF b = 0 THEN a ELSE Gcd(b, a % b)

\* n/d in lowest terms (n >= 0, d > 0).
Ratio(n, d) == NumCell(n \div Gcd(n, d), d \div Gcd(n, d))

\* =================================================================
\* Uploaded CSV files and pd.read_csv
\* =================================================================

\* The texts of the cells of a CSV file: an empty field, an integer, a
\* decimal fraction, a date, a word.
CsvTexts == {"", "3", "2.5", "2021-03-04", "x"}

IsNumericText(text) == text \in {"3", "2.5"}

\* float(text)
NumberOf(text) == IF text = "3" THEN NumCell(3, 1) ELSE NumCell(5, 2)

\* pd.read_csv is pandas' and not this repository's: an upload carries, per
\* way of reading it, what pandas answers.  "ok" returns the table; the other
\* outcomes name the exception raised ("Exception": one that is neither a
\* ParserError nor a TypeError).  pandas before 1.3 does not know
\* on_bad_lines and pandas from 2.0 on does not know error_bad_lines: the
\* unknown keyword is a TypeError.
ReadCsv(file, mode) ==
    CASE mode = "strict"          -> file.strict
      [] mode = "on_bad_lines"    -> IF file.legacyPandas THEN "TypeError" ELSE file.skip
      [] mode = "error_bad_lines" -> IF file.legacyPandas THEN file.skip ELSE "TypeError"
      [] mode = "sniff"           -> file.sniff

\* The outcome of reading, as the handlers keep it: the frame and
\* skipped_lines, or the exception that leaves the inner try, and the reads made.
Parsed(file, skipped, calls) ==
    [status |-> "ok", df |-> file.table, skipped |-> skipped, error |-> "", reads |-> calls]

Raised(error, calls) ==
    [status |-> "raise", df |-> <<>>, skipped |-> 0, error |-> error, reads |-> calls]

\* Lines 27-35 (74-82, 176-184): the handler of the strict read's ParserError.
\* What the retry raises, other than the TypeError of an unknown keyword,
\* leaves the handler.
RetrySkippingUnflagged(file) ==
    LET first == ReadCsv(file, "on_bad_lines")
        older == ReadCsv(file, "error_bad_lines")
    IN  IF first = "ok" THEN Parsed(file, 1, <<"strict", "on_bad_lines">>)
        ELSE IF first = "TypeError"
             THEN IF older = "ok"
                  THEN Parsed(file, 0, <<"strict", "on_bad_lines", "error_bad_lines">>)
                  ELSE Raised(older, <<"strict", "on_bad_lines", "error_bad_lines">>)
        ELSE Raised(first, <<"strict", "on_bad_lines">>)

RetrySkipping(file) ==
    LET first == ReadCsv(file, "on_bad_lines")
        older == ReadCsv(file, "error_bad_lines")
    IN  IF first = "ok" THEN Parsed(file, 1, <<"strict", "on_bad_lines">>)
        ELSE IF first = "TypeError"
             THEN IF older = "ok"
                  THEN Parsed(file, 1, <<"strict", "on_bad_lines", "error_bad_lines">>)
                  ELSE Raised(older, <<"strict", "on_bad_lines", "error_bad_lines">>)
        ELSE Raised(first, <<"strict", "on_bad_lines">>)

\* Lines 21-35 (68-82): process_csv and normalize_csv read the file.
ReadUpload(file) ==
    LET strict == ReadCsv(file, "strict")
    IN  IF strict = "ok" THEN Parsed(file, 0, <<"strict">>)
        ELSE IF strict = "ParserError" THEN RetrySkipping(file)
        ELSE Raised(strict, <<"strict">>)

\* Lines 185-193: the strict read raised something that is no ParserError.
LastResort(file, error) ==
    IF ReadCsv(file, "sniff") = "ok" THEN Parsed(file, 0, <<"strict", "sniff">>)
    ELSE Raised("Could not parse CSV file: " \o ReadCsv(file, "sniff")
                  \o ". Try checking for invalid characters or inconsistent formatting.",
                <<"strict", "sniff">>)

\* Lines 170-193: determine_datatypes reads the file (dtype=str).
ReadUploadAsText(file) ==
    LET strict == ReadCsv(file, "strict")
    IN  IF strict = "ok" THEN Parsed(file, 0, <<"strict">>)
        ELSE IF strict = "ParserError" THEN RetrySkipping(file)
        ELSE LastResort(file, strict)

\* The frame read_csv returns without dtype=str: a column of numbers and
\* empty fields is numeric, any other column holds its texts; an empty field
\* is null.
IsNumericColumn(table, c) ==
    \A i \in 1..Len(table.rows) :
        table.rows[i][c] = "" \/ IsNumericText(table.rows[i][c])

TypedFrame(table) ==
    [columns |-> table.columns,
     rows |-> [i \in 1..Len(table.rows) |->
                 [c \in 1..Len(table.columns) |->
                    LET text == table.rows[i][c]
                    IN  IF text = "" THEN Null
                        ELSE IF IsNumericColumn(table, c) THEN NumberOf(text)
                        ELSE StrCell(text)]]]

\* The frame read_csv returns with dtype=str.
TextFrame(table) ==
    [columns |-> table.columns,
     rows |-> [i \in 1..Len(table.rows) |->
                 [c \in 1..Len(table.columns) |->
                    IF table.rows[i][c] = "" THEN Null ELSE StrCell(table.rows[i][c])]]]

\* df.head(5)
HeadRows(df) == [df EXCEPT !.rows = SubSeq(df.rows, 1, Min(PreviewRows, Len(df.rows)))]

SkippedWarning == "Some malformed lines were skipped during CSV parsing"

\* Lines 46-47 (103-104, 261-262).
WithWarning(body, skipped) ==
    IF skipped > 0 THEN body @@ [warning |-> SkippedWarning] ELSE body

\* Lines 12-17 (59-64, 161-166): the upload is missing or has no name.
NoUpload(req) == ~req.hasFile \/ req.filename = ""

NoUploadReply(req) ==
    IF ~req.hasFile THEN Reply(400, ErrorBody("No file part"))
    ELSE Reply(400, ErrorBody("No selected file"))

\* =================================================================
\* /api/process-csv
\* =================================================================

ProcessCsv ==
    /\ request.route = "/api/process-csv"
    /\ response = Pending
    /\ LET r == ReadUpload(request.file)
       IN  IF NoUpload(request)
           THEN response' = NoUploadReply(request) /\ reads' = reads
           ELSE /\ reads' = r.reads
                /\ response' =
                     IF r.status = "ok"
                     THEN LET df == TypedFrame(r.df)
                          IN  Reply(200, WithWarning(
                                  [rowCount |-> Len(df.rows),
                                   columnCount |-> Len(df.columns),
                                   columns |-> df.columns,
                                   previewData |-> ToRecords(HeadRows(df))],
                                  r.skipped))
                     ELSE Reply(500, ErrorBody(r.error))
    /\ UNCHANGED request

\* =================================================================
\* /api/normalize-csv
\* =================================================================

Less(a, b) == a.n * b.d < b.n * a.d

\* df[col].min(), df[col].max() over the values that are not null.
ColMin(df, c) ==
    CHOOSE v \in Range(NonNull(df, c)) : \A w \in Range(NonNull(df, c)) : ~Less(w, v)

ColMax(df, c) ==
    CHOOSE v \in Range(NonNull(df, c)) : \A w \in Range(NonNull(df, c)) : ~Less(v, w)

\* (v - lo) / (hi - lo)
Scaled(v, lo, hi) ==
    Ratio((v.n * lo.d - lo.n * v.d) * hi.d, v.d * (hi.n * lo.d - lo.n * hi.d))

\* Lines 89-92: one numeric column; min and max of a column without a value
\* are NaN, and NaN > NaN is false.
ScaleColumn(df, c) ==
    IF NonNull(df, c) # <<>> /\ Less(ColMin(df, c), ColMax(df, c))
    THEN [df EXCEPT !.rows =
            [i \in 1..Len(df.rows) |->
                IF IsNa(df.rows[i][c]) THEN df.rows[i]
                ELSE [df.rows[i] EXCEPT ![c] = Scaled(@, ColMin(df, c), ColMax(df, c))]]]
    ELSE df

\* Lines 86-92: every numeric column, from the c-th on.
RECURSIVE ScaleColumns(_, _, _)
ScaleColumns(table, df, c) ==
    IF c > Len(df.columns) THEN df
    ELSE IF IsNumericColumn(table, c) THEN ScaleColumns(table, ScaleColumn(df, c), c + 1)
    ELSE ScaleColumns(table, df, c + 1)

NormalizeCsv ==
    /\ request.route = "/api/normalize-csv"
    /\ response = Pending
    /\ LET r == ReadUpload(request.file)
       IN  IF NoUpload(request)
           THEN response' = NoUploadReply(request) /\ reads' = reads
           ELSE /\ reads' = r.reads
                /\ response' =
                     IF r.status = "ok"
                     THEN LET df == ScaleColumns(r.df, TypedFrame(r.df), 1)
                          IN  Reply(200, WithWarning(
                                  [normalizedData |-> ToRecords(df),
                                   rowCount |-> Len(df.rows)],
                                  r.skipped))
                     ELSE Reply(500, ErrorBody(r.error))
    /\ UNCHANGED request

\* =================================================================
\* /api/determine-datatypes
\* =================================================================

\* pd.to_datetime(errors='coerce') parses a date; whether it also parses a bare
\* number depends on the pandas version (file.numeralDates).
IsDateText(text, file) ==
    text = "2021-03-04" \/ (file.numeralDates /\ IsNumericText(text))

\* excess < len(df) * 0.1.  The product is a double: for a row count that is
\* a multiple of ten it rounds to len(df) / 10 exactly, and for any other it
\* stays strictly between the same two integers as len(df) / 10 (row counts
\* below 2^50), so the test is that of the integers: 10 * excess < len(df).
BelowThresholdInclusive(excess, total) ==
    excess * ThresholdDen <= total * ThresholdNum

BelowThreshold(excess, total) ==
    excess * ThresholdDen < total * ThresholdNum

\* Lines 198-237: one column of the text frame (the texts of its cells).
\* Lines 238-244 catch what the analysis raises; with errors='coerce' neither
\* coercion raises on a column of texts, so no upload takes that branch.
AnalyzeColumn(col, file) ==
    LET total           == Len(col)
        nullCountBefore == Cardinality({i \in 1..total : col[i] = ""})
        nullCountAfter  == Cardinality({i \in 1..total : ~IsNumericText(col[i])})
        nullCountDate   == Cardinality({i \in 1..total : ~IsDateText(col[i], file)})
    IN  IF BelowThreshold(nullCountAfter - nullCountBefore, total)
        THEN IF \A i \in 1..total : IsNumericText(col[i]) => NumberOf(col[i]).d = 1
             THEN [detected |-> "integer", nullCount |-> nullCountAfter]
             ELSE [detected |-> "float", nullCount |-> nullCountAfter]
        ELSE IF BelowThreshold(nullCountDate - nullCountBefore, total)
             THEN [detected |-> "datetime", nullCount |-> nullCountDate]
        ELSE [detected |-> "string", nullCount |-> nullCountBefore]

\* Lines 196-244.  (The preview of lines 247-251 falls back to [] when
\* to_json raises, which it does not on a frame of texts.)
TypeInfo(table, file) ==
    [name \in Range(table.columns) |->
        AnalyzeColumn(Column(table, ColIndex(table, name)), file)]

DetermineDatatypes ==
    /\ request.route = "/api/determine-datatypes"
    /\ response = Pending
    /\ LET r == ReadUploadAsText(request.file)
       IN  IF NoUpload(request)
           THEN response' = NoUploadReply(request) /\ reads' = reads
           ELSE /\ reads' = r.reads
                /\ response' =
                     IF r.status = "ok"
                     THEN Reply(200, WithWarning(
                              [typeInfo |-> TypeInfo(r.df, request.file),
                               rowCount |-> Len(r.df.rows),
                               columnCount |-> Len(r.df.columns),
                               previewData |-> ToRecords(HeadRows(TextFrame(r.df)))],
                              r.skipped))
                     ELSE Reply(500, ErrorBody("Failed to analyze CSV: " \o r.error))
    /\ UNCHANGED request

\* ------------------------------------------------------------ uploads

NoTable == [columns |-> <<>>, rows |-> <<>>]

\* An empty file: every read raises EmptyDataError.
EmptyFiles ==
    [empty : {TRUE}, legacyPandas : BOOLEAN, numeralDates : {FALSE},
     strict : {"EmptyDataError"}, skip : {"EmptyDataError"}, sniff : {"EmptyDataError"},
     table : {NoTable}]

\* A file with content: a file the strict read accepts is accepted by every
\* read; a file no read accepts has no table.
FilesOf(tables) ==
    {f \in [empty : {FALSE}, legacyPandas : BOOLEAN, numeralDates : BOOLEAN,
            strict : {"ok", "ParserError", "Exception"},
            skip : {"ok", "ParserError", "Exception"},
            sniff : {"ok", "ParserError"},
            table : tables \cup {NoTable}] :
        /\ f.strict = "ok" => f.skip = "ok" /\ f.sniff = "ok"
        /\ (f.table = NoTable) = (f.skip # "ok" /\ f.sniff # "ok")}

UploadRoutes == {"/api/process-csv", "/api/normalize-csv", "/api/determine-datatypes"}

UploadRequests(files) ==
    {r \in [route : UploadRoutes, hasFile : BOOLEAN, filename : {"", "data.csv"},
            file : files] :
        /\ ~r.hasFile => r.filename = "" /\ r.file.empty /\ ~r.file.legacyPandas
        /\ r.route # "/api/determine-datatypes" => ~r.file.numeralDates}

IngestTables(maxRows) ==
    FramesOf({<<"a">>, <<"a", "b">>}, {"", "3", "2.5", "x"}, maxRows)

InitIngest ==
    /\ request \in UploadRequests(EmptyFiles \cup FilesOf(IngestTables(MaxCsvRows)))
    /\ response = Pending
    /\ reads = <<>>

NextIngest == ProcessCsv \/ NormalizeCsv \/ DetermineDatatypes

SpecIngest == InitIngest /\ [][NextIngest]_vars

\* One column of counts[k] cells of the k-th kind, kind after kind.
RECURSIVE Blocks(_, _)
Blocks(kinds, counts) ==
    IF kinds = <<>> THEN <<>>
    ELSE [i \in 1..Head(counts) |-> <<Head(kinds)>>] \o Blocks(Tail(kinds), Tail(counts))

\* The ways to give k kinds their counts, at most total cells in all.
RECURSIVE Splits(_, _)
Splits(k, total) ==
    IF k = 0 THEN {<<>>}
    ELSE UNION {{<<c>> \o rest : rest \in Splits(k - 1, total - c)} : c \in 0..total}

CellKinds == <<"", "3", "2.5", "2021-03-04", "x">>

TallTables(maxRows) ==
    {[columns |-> <<"a">>, rows |-> Blocks(CellKinds, counts)] :
        counts \in Splits(Len(CellKinds), maxRows)}

\* The files with these tables that the strict read accepts.
WellFormedFiles(tables) ==
    [empty : {FALSE}, legacyPandas : {FALSE}, numeralDates : BOOLEAN,
     strict : {"ok"}, skip : {"ok"}, sniff : {"ok"}, table : tables]

\* Type inference on well-formed files of one column.
InitTypes ==
    /\ request \in [route : {"/api/determine-datatypes"}, hasFile : {TRUE},
                     filename : {"data.csv"},
                     file : WellFormedFiles(TallTables(MaxTypeRows))]
    /\ response = Pending
    /\ reads = <<>>

NextTypes == DetermineDatatypes

SpecTypes == InitTypes /\ [][NextTypes]_vars

\* =================================================================
\* /api/handle-nulls
\* =================================================================

Strategies == {"drop", "mean", "median", "mode", "zero", "value"}

\* df.dropna(subset=[column]): the rows whose cell in column c is not null.
DropNaAnyColumn(df, c) ==
    [df EXCEPT !.rows =
        SelectSeq(df.rows, LAMBDA row : \A d \in 1..Len(row) : ~IsNa(row[d]))]

DropNa(df, c) ==
    [df EXCEPT !.rows = SelectSeq(df.rows, LAMBDA row : ~IsNa(row[c]))]

\* df[column].fillna(value)
FillNa(df, c, value) ==
    [df EXCEPT !.rows =
        [i \in 1..Len(df.rows) |->
            IF IsNa(df.rows[i][c]) THEN [df.rows[i] EXCEPT ![c] = value]
            ELSE df.rows[i]]]

HasNa(df, c) == \E i \in 1..Len(df.rows) : IsNa(df.rows[i][c])

\* pd.api.types.is_numeric_dtype(df[column])
IsNumericDtype(df, c) == Dtype(df, c) \in {"int64", "float64"}

RECURSIVE SumOf(_)
SumOf(cells) == IF cells = <<>> THEN 0 ELSE Head(cells).n + SumOf(Tail(cells))

\* Series.mean() of a column of integers and nulls.
Mean(df, c) == Ratio(SumOf(NonNull(df, c)), Len(NonNull(df, c)))

\* The k-th smallest of the integers of a sequence of cells.
KthSmallest(cells, k) ==
    CHOOSE v \in {cells[i].n : i \in 1..Len(cells)} :
        /\ Cardinality({i \in 1..Len(cells) : cells[i].n < v}) < k
        /\ Cardinality({i \in 1..Len(cells) : cells[i].n <= v}) >= k

\* Series.median() of a column of integers and nulls.
Median(df, c) ==
    LET vals == NonNull(df, c)
        m    == Len(vals)
    IN  IF m % 2 = 1 THEN IntCell(KthSmallest(vals, (m + 1) \div 2))
        ELSE Ratio(KthSmallest(vals, m \div 2) + KthSmallest(vals, m \div 2 + 1), 2)

\* Series.mode()[0]: the most frequent non-null value; among equally frequent
\* ones the smallest number, or the first to appear when they do not sort.
ModeOf(df, c) ==
    LET vals     == NonNull(df, c)
        Count(v) == Cardinality({i \in 1..Len(vals) : vals[i] = v})
        best     == {v \in Range(vals) : \A w \in Range(vals) : Count(w) <= Count(v)}
    IN  IF \A v \in best : v.t = "num"
        THEN CHOOSE v \in best : \A w \in best : v.n * w.d <= w.n * v.d
        ELSE vals[CHOOSE i \in 1..Len(vals) :
                    vals[i] \in best /\ \A j \in 1..(i - 1) : vals[j] \notin best]

\* data.get('fillValue', '')
FillValueOf(data) == IF data.hasFillValue THEN data.fillValue ELSE StrCell("")

\* Lines 129-143: one column under the strategy.  A strategy that is none of
\* the six matches no branch and leaves the frame as it is.  The result is
\* <<"ok", frame>>, or <<"raise", message>> where pandas raises: fillna(None)
\* for the mode of a column without a value.
ApplyStrategy(df, c, data) ==
    LET strategy == data.strategy
    IN  IF strategy = "drop" THEN <<"ok", DropNa(df, c)>>
        ELSE IF strategy = "mean"
             THEN IF IsNumericDtype(df, c) /\ HasNa(df, c)
                  THEN <<"ok", FillNa(df, c, Mean(df, c))>>
                  ELSE <<"ok", df>>
        ELSE IF strategy = "median"
             THEN IF IsNumericDtype(df, c) /\ HasNa(df, c)
                  THEN <<"ok", FillNa(df, c, Median(df, c))>>
                  ELSE <<"ok", df>>
        ELSE IF strategy = "mode"
             THEN IF NonNull(df, c) # <<>>
                  THEN <<"ok", FillNa(df, c, ModeOf(df, c))>>
                  ELSE <<"raise", "Must specify a fill 'value' or 'method'.">>
        ELSE IF strategy = "zero" THEN <<"ok", FillNa(df, c, IntCell(0))>>
        ELSE IF strategy = "value" THEN <<"ok", FillNa(df, c, FillValueOf(data))>>
        ELSE <<"ok", df>>

\* Lines 127-143: the columns of the list from the k-th on, in list order, each
\* on the frame the ones before it left.
RECURSIVE ApplyColumns(_, _, _, _)
ApplyColumns(df, columns, k, data) ==
    IF k > Len(columns) THEN <<"ok", df>>
    ELSE IF columns[k] \in Range(df.columns)
         THEN LET r == ApplyStrategy(df, ColIndex(df, columns[k]), data)
              IN  IF r[1] = "ok" THEN ApplyColumns(r[2], columns, k + 1, data)
                  ELSE r
    ELSE ApplyColumns(df, columns, k + 1, data)

\* data.get('columns', df.columns)
ColumnsOf(data) == IF data.hasColumns THEN data.columns ELSE data.csvData.columns

\* Lines 121-143.
HandleNullsFirstOnly(data) ==
    ApplyColumns(data.csvData, SubSeq(ColumnsOf(data), 1, Min(1, Len(ColumnsOf(data)))), 1, data)

HandleNullsResult(data) == ApplyColumns(data.csvData, ColumnsOf(data), 1, data)

NullCells == {Null, IntCell(1), IntCell(2), StrCell("a")}

NullColumnLists == {<<"a">>, <<"a", "b">>}

\* The column lists a caller sends: orders of a and b, a name that is no
\* column of the table, a name twice.
ListedColumns ==
    {<<>>, <<"a">>, <<"b">>, <<"a", "b">>, <<"b", "a">>,
     <<"z", "a">>, <<"b", "z">>, <<"a", "a">>}

NullsRequests(maxRows) ==
    [route : {"/api/handle-nulls"},
     hasCsvData : BOOLEAN,
     csvData : FramesOf(NullColumnLists \cup {<<>>}, NullCells, maxRows),
     hasStrategy : BOOLEAN,
     strategy : Strategies \cup {"median_fill"},
     hasColumns : BOOLEAN,
     columns : ListedColumns,
     hasFillValue : BOOLEAN,
     fillValue : {IntCell(9), StrCell("a")}]

HandleNulls ==
    /\ request.route = "/api/handle-nulls"
    /\ response = Pending
    /\ response' =
         IF ~request.hasCsvData \/ ~request.hasStrategy
         THEN Reply(400, ErrorBody("Invalid request format"))
         ELSE LET r == HandleNullsResult(request)
              IN  IF r[1] = "ok"
                  THEN Reply(200, [processedData |-> ToRecords(r[2]),
                                   rowCount |-> Len(r[2].rows)])
                  ELSE Reply(500, ErrorBody(r[2]))
    /\ UNCHANGED <<request, reads>>

\* A frame without rows has no columns; a request without a field carries no
\* value for it; fillValue comes with the strategy that reads it.
InitNulls ==
    /\ request \in {r \in NullsRequests(MaxNullRows) :
                      /\ (r.csvData.rows = <<>>) = (r.csvData.columns = <<>>)
                      /\ ~r.hasCsvData => r.csvData.rows = <<>>
                      /\ ~r.hasStrategy => r.strategy = "drop"
                      /\ ~r.hasColumns => r.columns = <<>>
                      /\ ~r.hasFillValue => r.fillValue = StrCell("a")
                      /\ r.hasFillValue => r.strategy = "value"}
    /\ response = Pending
    /\ reads = <<>>

NextNulls == HandleNulls

SpecNulls == InitNulls /\ [][NextNulls]_vars

\* =================================================================
\* /api/csv-to-sql
\* =================================================================

\* Lines 291-298.
SqlType(df, c) ==
    CASE Dtype(df, c) = "int64"   -> "INTEGER"
      [] Dtype(df, c) = "float64" -> "FLOAT"
      [] OTHER                    -> "TEXT"

\* str(val).replace("'", "''") on the string cells of the model.
EscapeQuotes(s) == IF s = "it's" THEN "it''s" ELSE s

\* An integer reaches the row loop as a float when its column is float64, or
\* when every column is numeric and one of them is float64 (iterrows gives the
\* row one dtype).
ArrivesAsFloat(df, c) ==
    \/ Dtype(df, c) = "float64"
    \/ /\ \A d \in 1..Len(df.columns) : Dtype(df, d) # "object"
       /\ \E d \in 1..Len(df.columns) : Dtype(df, d) = "float64"

\* Lines 313-319 (and 332-338): one value of a row as SQL text.
SqlLiteral(df, i, c) ==
    LET val == df.rows[i][c]
    IN  IF IsNa(val) THEN "NULL"
        ELSE IF val.t = "num"
             THEN IF ArrivesAsFloat(df, c)
                  THEN ToString(val.n) \o ".0"
                  ELSE ToString(val.n)
        ELSE IF val.s # "" THEN "'" \o EscapeQuotes(val.s) \o "'"
        ELSE "NULL"

RowLiterals(df, i) == [c \in 1..Len(df.columns) |-> SqlLiteral(df, i, c)]

\* An INSERT statement: the table, the column list and the value tuples;
\* "single" is the one-line form of line 321, "multi" the form of line 342.
InsertStatement(form, tableName, df, first, last) ==
    [form |-> form, table |-> tableName, columns |-> df.columns,
     values |-> [k \in 1..(last - first + 1) |-> RowLiterals(df, first + k - 1)]]

\* range(0, total_rows, batch_size), as the first rows of the batches (from 1).
BatchStartsShort(totalRows, batchSize) ==
    {i \in 1..totalRows : (i - 1) % batchSize = 0 /\ i + batchSize - 1 <= totalRows}

BatchStarts(totalRows, batchSize) ==
    {i \in 1..totalRows : (i - 1) % batchSize = 0}

\* Lines 305-343.
InsertStatements(df, tableName, batchSize) ==
    LET totalRows == Len(df.rows)
    IN  IF batchSize <= 1
        THEN [i \in 1..totalRows |-> InsertStatement("single", tableName, df, i, i)]
        ELSE LET starts == BatchStarts(totalRows, batchSize)
             IN  [k \in 1..Cardinality(starts) |->
                    LET i == (k - 1) * batchSize + 1
                    IN  InsertStatement("multi", tableName, df, i,
                                        Min(i + batchSize - 1, totalRows))]

\* Lines 288-302.
CreateTable(df, tableName) ==
    [table |-> tableName,
     columns |-> [c \in 1..Len(df.columns) |->
                    [name |-> df.columns[c], type |-> SqlType(df, c)]]]

\* data.get('batchSize', 1)
BatchSizeOf(data) == IF data.hasBatchSize THEN data.batchSize ELSE 1

SqlCells == {Null, IntCell(1), StrCell(""), StrCell("it's")}

SqlColumnLists == {<<>>, <<"id">>, <<"id", "name">>}

SqlRequests(maxRows, maxBatch) ==
    [route : {"/api/csv-to-sql"},
     hasCsvData : BOOLEAN,
     csvData : FramesOf(SqlColumnLists, SqlCells, maxRows),
     hasTableName : BOOLEAN,
     tableName : {"users"},
     hasBatchSize : BOOLEAN,
     batchSize : -1..maxBatch]

CsvToSql ==
    /\ request.route = "/api/csv-to-sql"
    /\ response = Pending
    /\ response' =
         IF ~request.hasCsvData \/ ~request.hasTableName
         THEN Reply(400, ErrorBody("Invalid request format"))
         ELSE LET df == request.csvData
              IN  Reply(200,
                    [createTableStatement |-> CreateTable(df, request.tableName),
                     insertStatements |->
                        InsertStatements(df, request.tableName, BatchSizeOf(request)),
                     rowCount |-> Len(df.rows),
                     columnCount |-> Len(df.columns)])
    /\ UNCHANGED <<request, reads>>

\* A frame without rows has no columns (the keys of the rows are its columns);
\* a request without a field carries no value for it.
InitSql ==
    /\ request \in {r \in SqlRequests(MaxSqlRows, MaxBatch) :
                      /\ r.csvData.rows = <<>> => r.csvData.columns = <<>>
                      /\ ~r.hasCsvData => r.csvData.rows = <<>>
                      /\ ~r.hasBatchSize => r.batchSize = 0}
    /\ response = Pending
    /\ reads = <<>>

NextSql == CsvToSql

SpecSql == InitSql /\ [][NextSql]_vars

\* =================================================================
\* /api/sql-splitter
\* =================================================================

\* A script is a sequence of lines (sql_content.splitlines()).  Three texts
\* stand for the three kinds of line the handler tells apart: a blank line, a
\* line without a semicolon and a line with one.
LineTexts == {"", "SELECT 1", "FROM t;"}

HasSemicolon(line) == line = "FROM t;"

IsBlank(line) == line = ""

\* str.strip() of a buffer of lines: the blank lines at both ends go, the
\* lines in between stay (blank ones too).
RECURSIVE StripLeft(_)
StripLeft(ls) ==
    IF ls = <<>> THEN <<>>
    ELSE IF IsBlank(Head(ls)) THEN StripLeft(Tail(ls))
    ELSE ls

RECURSIVE StripRight(_)
StripRight(ls) ==
    IF ls = <<>> THEN <<>>
    ELSE IF IsBlank(ls[Len(ls)]) THEN StripRight(SubSeq(ls, 1, Len(ls) - 1))
    ELSE ls

Strip(ls) == StripRight(StripLeft(ls))

\* A statement is text; len(statement.splitlines()) is its number of lines.
StatementSize(statement) == Len(statement)

\* The scan of lines 375-380, from line i on, with the statements found so far
\* and the current buffer; then lines 383-384 for the trailing buffer.
RECURSIVE ScanLines(_, _, _, _)
ScanLines(lines, i, statements, current) ==
    IF i > Len(lines)
    THEN IF Strip(current) # <<>>
         THEN Append(statements, Strip(current))
         ELSE statements
    ELSE LET buf == Append(current, lines[i])
         IN  IF HasSemicolon(lines[i])
             THEN ScanLines(lines, i + 1, Append(statements, Strip(buf)), <<>>)
             ELSE ScanLines(lines, i + 1, statements, buf)

SplitStatements(lines) == ScanLines(lines, 1, <<>>, <<>>)

\* "\n".join(current_chunk): the statements' lines, one after the other.
RECURSIVE JoinLines(_)
JoinLines(stmts) ==
    IF stmts = <<>> THEN <<>> ELSE Head(stmts) \o JoinLines(Tail(stmts))

\* The test of line 394.
ClosesChunkOff(size, statementSize, maxSize, chunk) ==
    size + statementSize >= maxSize /\ chunk # <<>>

ClosesChunkBlind(size, statementSize, maxSize, chunk) ==
    size > maxSize /\ chunk # <<>>

ClosesChunk(size, statementSize, maxSize, chunk) ==
    size + statementSize > maxSize /\ chunk # <<>>

\* The loop of lines 391-400 from statement i on, then lines 403-404.
RECURSIVE PackChunks(_, _, _, _, _, _)
PackChunks(statements, i, maxSize, chunks, chunk, size) ==
    IF i > Len(statements)
    THEN IF chunk # <<>> THEN Append(chunks, JoinLines(chunk)) ELSE chunks
    ELSE LET st == statements[i]
             n  == StatementSize(st)
         IN  IF ClosesChunk(size, n, maxSize, chunk)
             THEN PackChunks(statements, i + 1, maxSize,
                             Append(chunks, JoinLines(chunk)), <<st>>, n)
             ELSE PackChunks(statements, i + 1, maxSize,
                             chunks, Append(chunk, st), size + n)

GroupChunks(statements, maxSize) ==
    PackChunks(statements, 1, maxSize, <<>>, <<>>, 0)

\* data.get('maxChunkSize', 1000)
MaxChunkSizeOf(data) ==
    IF data.hasMaxChunkSize THEN data.maxChunkSize ELSE DefaultMaxChunkSize

SplitterRequests(maxLines, maxChunk) ==
    [route : {"/api/sql-splitter"},
     hasSqlContent : BOOLEAN,
     sqlContent : SeqsUpTo(LineTexts, maxLines),
     hasMaxChunkSize : BOOLEAN,
     maxChunkSize : -1..maxChunk]

SqlSplitter ==
    /\ request.route = "/api/sql-splitter"
    /\ response = Pending
    /\ response' =
         IF ~request.hasSqlContent
         THEN Reply(400, ErrorBody("Invalid request format"))
         ELSE LET statements == SplitStatements(request.sqlContent)
                  chunks     == GroupChunks(statements, MaxChunkSizeOf(request))
              IN  Reply(200, [chunks |-> chunks,
                              chunkCount |-> Len(chunks),
                              originalStatementCount |-> Len(statements)])
    /\ UNCHANGED <<request, reads>>

InitChunker ==
    /\ request \in {r \in SplitterRequests(MaxLines, MaxChunk) :
                      /\ ~r.hasSqlContent => r.sqlContent = <<>>
                      /\ ~r.hasMaxChunkSize => r.maxChunkSize = 0}
    /\ response = Pending
    /\ reads = <<>>

NextChunker == SqlSplitter

SpecChunker == InitChunker /\ [][NextChunker]_vars

\* =================================================================
\* Properties
\* =================================================================

\* The members of a finite set of integers, ascending.
RECURSIVE SortedSeq(_)
SortedSeq(S) ==
    IF S = {} THEN <<>>
    ELSE LET least == CHOOSE x \in S : \A y \in S : x <= y
         IN  <<least>> \o SortedSeq(S \ {least})

\* The statements cut into consecutive groups, a new group starting at
\* statement 1 and at every index of S.
GroupsOf(stmts, S) ==
    IF stmts = <<>> THEN <<>>
    ELSE LET starts == SortedSeq({1} \cup S)
             m      == Len(starts)
         IN  [k \in 1..m |->
                SubSeq(stmts, starts[k],
                       IF k < m THEN starts[k + 1] - 1 ELSE Len(stmts))]

RECURSIVE LineCount(_)
LineCount(stmts) ==
    IF stmts = <<>> THEN 0 ELSE Len(Head(stmts)) + LineCount(Tail(stmts))

\* The first statement of the group statement j belongs to.
GroupStart(S, j) ==
    CHOOSE s \in ({1} \cup S) :
        s <= j /\ \A t \in ({1} \cup S) : t <= j => t <= s

ChunkerDone ==
    request.route = "/api/sql-splitter" /\ response # Pending /\ response.status = 200

\* C2: every chunk is a run of whole statements, and a chunk of two or more
\* statements has at most maxChunkSize lines.
C2_ChunkWithinMaxOrSingle ==
    ChunkerDone =>
        LET stmts == SplitStatements(request.sqlContent)
            maxSize == MaxChunkSizeOf(request)
        IN  \E S \in SUBSET (2..Len(stmts)) :
                LET g == GroupsOf(stmts, S)
                IN  /\ Len(response.body.chunks) = Len(g)
                    /\ \A k \in 1..Len(g) :
                         /\ response.body.chunks[k] = JoinLines(g[k])
                         /\ Len(g[k]) = 1 \/ LineCount(g[k]) <= maxSize

\* A response with a chunk longer than the maximum and a chunk of two statements.
C2_Witness ==
    /\ ChunkerDone
    /\ \E i, j \in 1..Len(response.body.chunks) :
         /\ Len(response.body.chunks[i]) > MaxChunkSizeOf(request)
         /\ Len(response.body.chunks[j]) <= MaxChunkSizeOf(request)
         /\ Cardinality({l \in 1..Len(response.body.chunks[j]) :
                            HasSemicolon(response.body.chunks[j][l])}) >= 2

\* C10: the chunks are the greedy in-order packing of the statements: a
\* statement opens a new chunk exactly when the chunk before it is non-empty
\* and would pass the maximum with it; a statement longer than the maximum is
\* alone in its chunk; the two counts are the numbers of chunks and statements.
C10_GreedyPacking ==
    ChunkerDone =>
        LET stmts == SplitStatements(request.sqlContent)
            n == Len(stmts)
            maxSize == MaxChunkSizeOf(request)
        IN  /\ response.body.chunkCount = Len(response.body.chunks)
            /\ response.body.originalStatementCount = n
            /\ JoinLines(response.body.chunks) = JoinLines(stmts)
            /\ \E S \in SUBSET (2..n) :
                 LET g == GroupsOf(stmts, S)
                 IN  /\ Len(response.body.chunks) = Len(g)
                     /\ \A k \in 1..Len(g) :
                          /\ response.body.chunks[k] = JoinLines(g[k])
                          /\ \A a \in 1..Len(g[k]) :
                               Len(g[k][a]) > maxSize => Len(g[k]) = 1
                     /\ \A j \in 2..n :
                          j \in S <=>
                            LineCount(SubSeq(stmts, GroupStart(S, j - 1), j - 1))
                              + Len(stmts[j]) > maxSize

\* Statements of 1, 3 and 1 lines with maximum 2: three chunks, the long
\* statement alone in the second.
C10_Witness ==
    /\ ChunkerDone
    /\ request.hasMaxChunkSize /\ request.maxChunkSize = 2
    /\ request.sqlContent =
         <<"FROM t;", "SELECT 1", "SELECT 1", "FROM t;", "FROM t;">>
    /\ response.body.chunks =
         << <<"FROM t;">>, <<"SELECT 1", "SELECT 1", "FROM t;">>, <<"FROM t;">> >>
    /\ response.body.chunkCount = 3
    /\ response.body.originalStatementCount = 3

NullsHandled ==
    /\ request.route = "/api/handle-nulls"
    /\ response # Pending
    /\ request.hasCsvData /\ request.hasStrategy

DropHandled == NullsHandled /\ request.strategy = "drop"

\* C3: a strategy that is none of drop, mean, median, mode, zero, value is
\* answered with a client error and no transformed table.
C3_UnknownStrategyRejected ==
    (NullsHandled /\ request.strategy \notin Strategies) => response.status = 400

\* What the handler does with it: status 200 and the table as it came.
C3_UnknownStrategyAccepted ==
    /\ NullsHandled /\ request.strategy \notin Strategies
    /\ request.csvData.rows # <<>>
    /\ response.status = 200
    /\ response.body.processedData = ToRecords(request.csvData)

\* The rows of the request that are non-null in every listed column the table has.
KeptRows(data) ==
    SelectSeq(data.csvData.rows,
              LAMBDA row : \A k \in 1..Len(data.columns) :
                  data.columns[k] \in Range(data.csvData.columns)
                      => ~IsNa(row[ColIndex(data.csvData, data.columns[k])]))

\* C6: drop with a column list returns exactly the rows that are non-null in
\* every listed column the table has, in their order, and counts them.
C6_DropRemovesUnion ==
    (DropHandled /\ request.hasColumns) =>
        /\ response.status = 200
        /\ response.body.processedData =
             ToRecords([request.csvData EXCEPT !.rows = KeptRows(request)])
        /\ response.body.rowCount = Len(KeptRows(request))

\* Two columns listed, a row null only in a column that is not listed is kept,
\* one row goes for the first column and none is left null in a listed one.
C6_Witness ==
    /\ DropHandled /\ request.hasColumns
    /\ request.columns = <<"b", "z">>
    /\ request.csvData.columns = <<"a", "b">>
    /\ Len(request.csvData.rows) = 2
    /\ IsNa(request.csvData.rows[1][2])
    /\ IsNa(request.csvData.rows[2][1]) /\ ~IsNa(request.csvData.rows[2][2])
    /\ response.body.rowCount = 1

\* The orders of a column list: the lists with the same set of names and the
\* same length.
Reorderings(columns) ==
    {p \in ListedColumns : Len(p) = Len(columns) /\ Range(p) = Range(columns)}

DropRowCount(data, columns) ==
    Len(ApplyColumns(data.csvData, columns, 1, data)[2].rows)

\* C9 as stated: some table and two orders of one column set give different
\* row counts under drop.
C9_OrderChangesRowCount ==
    DropHandled =>
        \E df \in FramesOf(NullColumnLists, NullCells, MaxNullRows) :
            \E p, q \in ListedColumns :
                /\ Range(p) = Range(q) /\ Len(p) = Len(q)
                /\ LET data == [request EXCEPT !.csvData = df]
                   IN  DropRowCount(data, p) # DropRowCount(data, q)

\* C9 as the handler behaves: the row count (and the rows) returned by drop
\* are those of every other order of the same column list.
C9_OrderIndependent ==
    (DropHandled /\ request.hasColumns) =>
        \A p \in Reorderings(request.columns) :
            LET other == HandleNullsResult([request EXCEPT !.columns = p])
            IN  /\ response.status = 200
                /\ response.body.rowCount = Len(other[2].rows)
                /\ response.body.processedData = ToRecords(other[2])

\* A table whose two columns are null in different rows, the columns listed
\* b before a: both rows go.
C9_Witness ==
    /\ DropHandled /\ request.hasColumns
    /\ request.columns = <<"b", "a">>
    /\ request.csvData.columns = <<"a", "b">>
    /\ Len(request.csvData.rows) = 2
    /\ IsNa(request.csvData.rows[1][1]) /\ ~IsNa(request.csvData.rows[1][2])
    /\ ~IsNa(request.csvData.rows[2][1]) /\ IsNa(request.csvData.rows[2][2])
    /\ response.body.rowCount = 0

SqlDone ==
    request.route = "/api/csv-to-sql" /\ response # Pending /\ response.status = 200

\* C7: n rows give n one-row INSERTs when batchSize <= 1, else ceil(n /
\* batchSize) INSERTs, the k-th holding rows (k-1)*batchSize+1 .. min(k*batchSize, n)
\* in row order.
C7_Batching ==
    SqlDone =>
        LET df == request.csvData
            n  == Len(df.rows)
            b  == BatchSizeOf(request)
            st == response.body.insertStatements
        IN  IF b <= 1
            THEN /\ Len(st) = n
                 /\ \A k \in 1..n : st[k].values = <<RowLiterals(df, k)>>
            ELSE /\ Len(st) = (n + b - 1) \div b
                 /\ \A k \in 1..Len(st) :
                      /\ Len(st[k].values) = Min(k * b, n) - (k - 1) * b
                      /\ k < Len(st) => Len(st[k].values) = b
                      /\ \A j \in 1..Len(st[k].values) :
                           st[k].values[j] = RowLiterals(df, (k - 1) * b + j)
                 /\ \A i \in 1..n :
                      Cardinality({k \in 1..Len(st) :
                                     (k - 1) * b < i /\ i <= (k - 1) * b + Len(st[k].values)}) = 1

\* Three rows with batch size 2: statements of 2 and 1 tuples.
C7_Witness ==
    /\ SqlDone
    /\ BatchSizeOf(request) = 2
    /\ Len(request.csvData.rows) = 3
    /\ Len(response.body.insertStatements) = 2
    /\ Len(response.body.insertStatements[1].values) = 2
    /\ Len(response.body.insertStatements[2].values) = 1

UploadHandled ==
    request.route \in UploadRoutes /\ response # Pending /\ ~NoUpload(request)

\* The skip-malformed-lines read fails under the spelling this pandas knows.
SkipFails(file) ==
    \/ ReadCsv(file, "on_bad_lines") \notin {"ok", "TypeError"}
    \/ ReadCsv(file, "on_bad_lines") = "TypeError" /\ ReadCsv(file, "error_bad_lines") # "ok"

SkipTried == "on_bad_lines" \in Range(reads)

\* C1: when the strict read fails with a ParserError and the skip read fails
\* too, the permissive read is made; and an upload is answered with a server
\* error only after the strict, the skip and the permissive read were all made.
C1_LadderExhausted ==
    UploadHandled =>
        /\ (ReadCsv(request.file, "strict") = "ParserError" /\ SkipFails(request.file))
              => "sniff" \in Range(reads)
        /\ response.status = 500
              => "strict" \in Range(reads) /\ SkipTried /\ "sniff" \in Range(reads)

\* What the handlers do: the skip read's failure ends the request.
C1_SkipFailureEndsRequest ==
    /\ UploadHandled
    /\ ReadCsv(request.file, "strict") = "ParserError" /\ SkipFails(request.file)
    /\ request.file.sniff = "ok"
    /\ "sniff" \notin Range(reads)
    /\ response.status = 500

\* C4: a missing upload or an empty file is answered with a client error.
C4_MissingOrEmptyIsClientError ==
    (/\ request.route \in UploadRoutes
     /\ response # Pending
     /\ NoUpload(request) \/ request.file.empty) => response.status = 400

\* What the handlers do with an empty file that has a name: a server error.
C4_EmptyFileIsServerError ==
    /\ UploadHandled /\ request.file.empty
    /\ response.status = 500

UploadParsed == UploadHandled /\ response.status = 200

HasWarning == "warning" \in DOMAIN response.body

C5_PermissiveUnwarned ==
    /\ UploadParsed
    /\ reads = <<"strict", "sniff">>
    /\ ~HasWarning

TypesDone ==
    /\ request.route = "/api/determine-datatypes"
    /\ response # Pending /\ response.status = 200

\* The cells of the named column of the uploaded table.
Cells(name) ==
    LET table == request.file.table
    IN  {<<i, table.rows[i][ColIndex(table, name)]>> : i \in 1..Len(table.rows)}

Empties(name) == Cardinality({p \in Cells(name) : p[2] = ""})

NumericFailures(name) == Cardinality({p \in Cells(name) : p[2] \notin {"3", "2.5"}})

DateFailures(name) ==
    Cardinality({p \in Cells(name) :
        ~(p[2] = "2021-03-04" \/ (request.file.numeralDates /\ p[2] \in {"3", "2.5"}))})

\* C8: with n rows, e empty cells, f cells that fail numeric coercion and d
\* cells that fail datetime coercion, a column is numeric exactly when
\* 10 * (f - e) < n (integer when no coerced value has a fraction, else float,
\* null count f); otherwise datetime exactly when 10 * (d - e) < n, else string.
C8_TenPercentRule ==
    TypesDone =>
        \A name \in Range(request.file.table.columns) :
            LET n    == Len(request.file.table.rows)
                e    == Empties(name)
                f    == NumericFailures(name)
                d    == DateFailures(name)
                info == response.body.typeInfo[name]
            IN  /\ info.detected \in {"integer", "float"} <=> 10 * (f - e) < n
                /\ info.detected \in {"integer", "float"} =>
                     /\ info.nullCount = f
                     /\ info.detected = "integer" <=>
                          \A p \in Cells(name) : p[2] # "2.5"
                /\ info.detected = "datetime" <=>
                     ~(10 * (f - e) < n) /\ 10 * (d - e) < n
                /\ info.detected = "string" <=>
                     ~(10 * (f - e) < n) /\ ~(10 * (d - e) < n)
                /\ info.detected \in {"integer", "float", "datetime", "string"}

\* Eleven rows, no empty cell, one cell that is no number: the excess is
\* below a tenth and the column is numeric with null count 1.
C8_Witness ==
    /\ TypesDone
    /\ request.file.table.columns = <<"a">>
    /\ Len(request.file.table.rows) = 11
    /\ Empties("a") = 0 /\ NumericFailures("a") = 1
    /\ response.body.typeInfo["a"] = [detected |-> "float", nullCount |-> 1]

====
